---- MODULE Spec2Model ----
(***************************************************************************)
(* Model of template.h: the test-case reader read_testcase, the symbol     *)
(* table ConvertChar and the phred-to-probability tables of                *)
(* Context<double> and Context<float>.                                     *)
(*                                                                         *)
(* Characters are C char values written as their ASCII codes:              *)
(*   10 '\n'  32 ' '  33 '!'  43 '+'  65 'A'  67 'C'  71 'G'  73 'I'       *)
(*   78 'N'  84 'T'  88 'X'                                                *)
(* A line is the sequence of chars getline hands back (the newline, when   *)
(* the line has one, included).                                            *)
(***************************************************************************)
EXTENDS Integers, Sequences, FiniteSets, TLC

VARIABLES
    \* ---- read_testcase ----
    input,        \* history: every line stdin held at the start
    stdin,        \* the lines of stdin not read yet
    calls,        \* history: number of read_testcase calls returned so far
    tc,           \* the caller's testcase struct (pointers and lengths)
    mem,          \* the heap: live block |-> what has been written to it
    ret,          \* return value of the last call
    outcome,      \* history: return path of the last call
    tcBefore,     \* history: tc as it was when the last call started
    scratch,      \* history: the bytes the last successful call read from q, i, d, c
    allocd,       \* history: the blocks the last call allocated
    normOff,      \* parameter of the external normalize()
    \* ---- ConvertChar ----
    conversionTable,  \* static uint8_t conversionTable[255]
    initCalled,       \* history: ConvertChar::init has run
    lastGet,          \* history: the last ConvertChar::get call
    \* ---- Context<T> ----
    prec,         \* which specialization is being constructed
    cx,           \* loop variable x of the constructor
    ph2pr,        \* ph2pr[0 .. cx-1] as written so far
    built         \* the constructor has returned

rtVars  == <<input, stdin, calls, tc, mem, ret, outcome, tcBefore, scratch, allocd, normOff>>
ccVars  == <<conversionTable, initCalled, lastGet>>
ctxVars == <<prec, cx, ph2pr, built>>
vars    == <<rtVars, ccVars, ctxVars>>

Max(a, b) == IF a < b THEN b ELSE a

(***************************************************************************)
(* Bounds of the model.                                                    *)
(***************************************************************************)
MaxLines   == 2     \* lines on stdin at the start
ExtraCalls == 2     \* calls made after stdin is exhausted

(***************************************************************************)
(* Inputs.                                                                 *)
(***************************************************************************)
\* Lines stdin may hold.
SampleLines ==
    { <<65,67,32,71,84,32,33,33,32,33,33,32,33,33,32,33,33,10>>,   \* "AC GT !! !! !! !!\n"
      <<78,32,84,32,43,32,73,32,33,32,43,10>>,                     \* "N T + I ! +\n"
      <<32,32,65,32,32,71,84,32,43,73,32,73,43,32,33,73,32,43,43>>,\* "  A  GT +I I+ !I ++"
      <<65,32,71,84,65,32,73,32,33,33,33,32,43,32,33,73,43,10>>,   \* "A GTA I !!! + !I+\n"
      <<65,67,32,71,84,10>>,                                       \* "AC GT\n"
      <<10>>,                                                      \* "\n"
      <<65,67,32,71,84,32,33,33,32,33,33,32,33,33,32,33,33,32,88,10>> } \* seven tokens

\* Bytes an uninitialised malloc block may hold where the code reads one.
IndetChars == {0, 33, 73}

\* Offsets of the normalize() family (normalize is defined outside template.h).
NormOffsets == {33, 80}

Streams == UNION { [1..n -> SampleLines] : n \in 0..MaxLines }

(***************************************************************************)
(* sscanf(line, "%s %s %s %s %s %s\n", ...)                                *)
(***************************************************************************)
IsSpace(ch) == ch \in {32, 10, 9, 11, 12, 13}

RECURSIVE SkipWs(_)
SkipWs(s) == IF s # <<>> /\ IsSpace(Head(s)) THEN SkipWs(Tail(s)) ELSE s

\* %s: the longest run of non-space chars at the front of s.
RECURSIVE TakeTok(_)
TakeTok(s) ==
    IF s = <<>> \/ IsSpace(Head(s)) THEN <<>> ELSE <<Head(s)>> \o TakeTok(Tail(s))

\* The tokens the first n %s conversions assign, in order.
RECURSIVE Scan(_, _)
Scan(s, n) ==
    IF n = 0 THEN <<>>
    ELSE LET t == SkipWs(s) IN
         IF t = <<>> THEN <<>>
         ELSE LET tok == TakeTok(t) IN
              <<tok>> \o Scan(SubSeq(t, Len(tok) + 1, Len(t)), n - 1)

NumConversions == 6

\* sscanf's return value: the number of assignments, EOF when the input ends
\* before the first one.
SscanfRet(toks) == IF Len(toks) = 0 THEN -1 ELSE Len(toks)

\* All whitespace-separated tokens of a line.
Tokens(line) == Scan(line, Len(line))

(***************************************************************************)
(* read_testcase                                                           *)
(***************************************************************************)
NULL == <<0, "null">>

PtrFields == {"hap", "rs", "ihap", "irs", "q", "i", "d", "c"}

RetEof       == -1
RetParseFail == -1
RetOk        == 0

normalize(ch) == ch - normOff

\* (int) of a char: value preserving.
CharToIntViaTable(ch) ==
    CASE ch = 65 -> 0 [] ch = 67 -> 1 [] ch = 84 -> 2 [] ch = 71 -> 3
      [] ch = 78 -> 4 [] OTHER -> 0
CharToInt(ch) == ch

NoFloor(_q) == _q
FloorQuality(_q) == IF _q < 6 THEN 6 ELSE _q

\* One iteration of the loop over read positions: bufs are the four score
\* buffers, rs the read, x the (1-based) position.
RowFloorAll(bufs, rs, x) ==
    [q   |-> FloorQuality(normalize(bufs.q[x])),
     i   |-> FloorQuality(normalize(bufs.i[x])),
     d   |-> FloorQuality(normalize(bufs.d[x])),
     c   |-> FloorQuality(normalize(bufs.c[x])),
     irs |-> CharToInt(rs[x])]
Row(bufs, rs, x) ==
    [q   |-> FloorQuality(normalize(bufs.q[x])),
     i   |-> normalize(bufs.i[x]),
     d   |-> normalize(bufs.d[x]),
     c   |-> normalize(bufs.c[x]),
     irs |-> CharToInt(rs[x])]

\* getline: the next line and what is left of the stream.
GetlineNoAdvance(s) == [line |-> Head(s), rest |-> s]
Getline(s) == [line |-> Head(s), rest |-> Tail(s)]

\* What a score buffer holds in its first n bytes after sscanf stored tok in
\* it: the token, its terminating NUL, then whatever malloc left there.
BufContents(tok, n) ==
    IF Len(tok) >= n THEN {SubSeq(tok, 1, n)}
    ELSE { tok \o <<0>> \o g : g \in [1..(n - Len(tok) - 1) -> IndetChars] }

Blk(site) == <<calls + 1, site>>

\* mem without the blocks in gone, with the blocks of new added.
Heap(new, gone) ==
    [b \in (DOMAIN mem \cup DOMAIN new) \ gone |->
        IF b \in DOMAIN new THEN new[b] ELSE mem[b]]

\* getline is taken to behave as with a size_t capacity argument (line 160
\* passes the address of the int size): it returns one line in a buffer of
\* capacity size > strlen(line), so every token and its NUL fit the buffers
\* of lines 164-169.

\* lines 160-162: getline fails.  A line buffer may have been allocated.
ReadEof ==
    /\ stdin = <<>>
    /\ \E gotBuf \in BOOLEAN :
         LET new == IF gotBuf THEN (Blk("line") :> <<>>) ELSE [b \in {} |-> <<>>] IN
         /\ mem' = Heap(new, {})
         /\ allocd' = DOMAIN new
    /\ ret' = RetEof
    /\ outcome' = "eof"
    /\ UNCHANGED <<stdin, tc, scratch>>

\* lines 160-175: a line is read, sscanf assigns fewer than six tokens.
ReadMalformed ==
    /\ stdin # <<>>
    /\ LET g    == Getline(stdin)
           toks == Scan(g.line, NumConversions)
           Tok(k) == IF k <= Len(toks) THEN toks[k] ELSE <<>>
           new  == (Blk("line") :> g.line) @@ (Blk("hap") :> Tok(1))
                   @@ (Blk("rs") :> Tok(2)) @@ (Blk("q_tmp") :> Tok(3))
                   @@ (Blk("i_tmp") :> Tok(4)) @@ (Blk("d_tmp") :> Tok(5))
                   @@ (Blk("c_tmp") :> Tok(6)) @@ (Blk("ihap170") :> <<>>)
                   @@ (Blk("irs171") :> <<>>)
       IN
       /\ SscanfRet(toks) # NumConversions
       /\ stdin' = g.rest
       /\ tc' = [tc EXCEPT !.hap = Blk("hap"), !.rs = Blk("rs"),
                           !.ihap = Blk("ihap170"), !.irs = Blk("irs171")]
       /\ mem' = Heap(new, {})
       /\ allocd' = DOMAIN new
    /\ ret' = RetParseFail
    /\ outcome' = "malformed"
    /\ UNCHANGED scratch

\* lines 160-209: a line is read and sscanf assigns six tokens.
ReadOk ==
    /\ stdin # <<>>
    /\ LET g      == Getline(stdin)
           toks   == Scan(g.line, NumConversions)
       IN
       /\ SscanfRet(toks) = NumConversions
       /\ LET haplen == Len(toks[1])
              rslen  == Len(toks[2])
          IN
          \E qb \in BufContents(toks[3], rslen), ib \in BufContents(toks[4], rslen),
             db \in BufContents(toks[5], rslen), cb \in BufContents(toks[6], rslen) :
            LET bufs == [q |-> qb, i |-> ib, d |-> db, c |-> cb]
                rows == [x \in 1..rslen |-> Row(bufs, toks[2], x)]
                new  == (Blk("hap") :> toks[1]) @@ (Blk("rs") :> toks[2])
                        @@ (Blk("ihap170") :> <<>>) @@ (Blk("irs171") :> <<>>)
                        @@ (Blk("q") :> [x \in 1..rslen |-> rows[x].q])
                        @@ (Blk("i") :> [x \in 1..rslen |-> rows[x].i])
                        @@ (Blk("d") :> [x \in 1..rslen |-> rows[x].d])
                        @@ (Blk("c") :> [x \in 1..rslen |-> rows[x].c])
                        @@ (Blk("irs") :> [x \in 1..rslen |-> rows[x].irs])
                        @@ (Blk("ihap") :> [x \in 1..haplen |-> CharToInt(toks[1][x])])
                tmp  == {Blk("q_tmp"), Blk("i_tmp"), Blk("d_tmp"), Blk("c_tmp"), Blk("line")}
            IN
            /\ stdin' = g.rest
            /\ tc' = [hap |-> Blk("hap"), rs |-> Blk("rs"),
                      ihap |-> Blk("ihap"), irs |-> Blk("irs"),
                      q |-> Blk("q"), i |-> Blk("i"), d |-> Blk("d"), c |-> Blk("c"),
                      haplen |-> haplen, rslen |-> rslen]
            /\ mem' = Heap(new, tmp)
            /\ allocd' = DOMAIN new \cup tmp
            /\ scratch' = bufs
    /\ ret' = RetOk
    /\ outcome' = "ok"

read_testcase ==
    /\ calls < Len(input) + ExtraCalls
    /\ calls' = calls + 1
    /\ tcBefore' = tc
    /\ (ReadEof \/ ReadMalformed \/ ReadOk)
    /\ UNCHANGED <<input, normOff, ccVars, ctxVars>>

RtInit ==
    /\ input \in Streams
    /\ stdin = input
    /\ calls = 0
    /\ tc = [hap |-> NULL, rs |-> NULL, ihap |-> NULL, irs |-> NULL,
             q |-> NULL, i |-> NULL, d |-> NULL, c |-> NULL,
             haplen |-> 0, rslen |-> 0]
    /\ mem = [b \in {} |-> <<>>]
    /\ ret = 0
    /\ outcome = "none"
    /\ tcBefore = tc
    /\ scratch = [q |-> <<>>, i |-> <<>>, d |-> <<>>, c |-> <<>>]
    /\ allocd = {}

RtIdle ==
    /\ input = <<>>
    /\ normOff = 33
    /\ RtInit

(***************************************************************************)
(* ConvertChar                                                             *)
(***************************************************************************)
TableSize == 255
Byte == 0..255

\* ConvertChar::init: the five assignments.
InitTableSlip(t) ==
    [t EXCEPT ![65] = 0, ![67] = 1, ![84] = 2, ![71] = 2, ![78] = 4]
InitTable(t) ==
    [t EXCEPT ![65] = 0, ![67] = 1, ![84] = 2, ![71] = 3, ![78] = 4]

\* The values conversionTable[index] can yield: the entry, or, past the end
\* of the array, whatever byte lies there.
TableRead(t, index) == IF index \in DOMAIN t THEN {t[index]} ELSE Byte

ConvertChar_init ==
    /\ conversionTable' = InitTable(conversionTable)
    /\ initCalled' = TRUE
    /\ UNCHANGED <<lastGet, rtVars, ctxVars>>

ConvertChar_get(inp) ==
    /\ \E v \in TableRead(conversionTable, inp) :
         lastGet' = [called |-> TRUE, input |-> inp, index |-> inp, result |-> v,
                     afterInit |-> initCalled]
    /\ UNCHANGED <<conversionTable, initCalled, rtVars, ctxVars>>

CcInit ==
    /\ conversionTable = [k \in 0..(TableSize - 1) |-> 0]
    /\ initCalled = FALSE
    /\ lastGet = [called |-> FALSE, input |-> 0, index |-> 0, result |-> 0,
                  afterInit |-> FALSE]

(***************************************************************************)
(* Context<double>, Context<float>: ph2pr[x] = pow(10, -x / 10).           *)
(*                                                                         *)
(* A floating-point value v is kept as an enclosure [lo, hi, e]:           *)
(*     lo * 2^(e - GridBits) <= v <= hi * 2^(e - GridBits).                *)
(* pow and powf return the real power up to a relative error below         *)
(* 2^-PowErrBits (for float this includes the rounding of -x / 10.f), and  *)
(* pow(x, -0.0) is exactly 1.  The real power is located with exact        *)
(* integer arithmetic on numbers held as little-endian limb sequences.     *)
(***************************************************************************)
GridBits == 14
TableLen == 128

LimbBits == 12
LimbBase == 2^LimbBits

\* The limbs of a machine integer n >= 0.
RECURSIVE Limbs(_)
Limbs(n) == IF n = 0 THEN <<>> ELSE <<n % LimbBase>> \o Limbs(n \div LimbBase)

\* a * k + carry for a limb sequence a and small k.
RECURSIVE MulSmall(_, _, _)
MulSmall(a, k, carry) ==
    IF a = <<>> THEN Limbs(carry)
    ELSE LET p == Head(a) * k + carry IN
         <<p % LimbBase>> \o MulSmall(Tail(a), k, p \div LimbBase)

\* a * k^n.
RECURSIVE MulPow(_, _, _)
MulPow(a, k, n) ==
    IF n = 0 THEN a
    ELSE LET b == MulSmall(a, k, 0) IN
         IF Len(b) > 0 THEN MulPow(b, k, n - 1) ELSE b

\* 10^n, four decimal digits at a time.
Pow10Big(n) == MulPow(MulPow(<<1>>, 10000, n \div 4), 10, n % 4)

RECURSIVE SmallBitLen(_)
SmallBitLen(n) == IF n = 0 THEN 0 ELSE 1 + SmallBitLen(n \div 2)

\* Number of bits of a limb sequence a > 0.
BitLen(a) == (Len(a) - 1) * LimbBits + SmallBitLen(a[Len(a)])

\* The largest m in lo .. hi-1 with m^10 * t < 2^bits, given that lo has the
\* property and hi has not.
RECURSIVE SearchRoot(_, _, _, _)
SearchRoot(lo, hi, t, bits) ==
    IF hi - lo <= 1 THEN lo
    ELSE LET mid == (lo + hi) \div 2 IN
         IF BitLen(MulPow(t, mid, 10)) <= bits
         THEN SearchRoot(mid, hi, t, bits)
         ELSE SearchRoot(lo, mid, t, bits)

\* Relative error of the library power function, as a bit count.
PowErrBits(p) == IF p = "double" THEN 50 ELSE 18

\* Grid units by which the returned value may differ from the real power.
ErrUnits(p) ==
    IF PowErrBits(p) >= GridBits + 1 THEN 1 ELSE 2^(GridBits + 1 - PowErrBits(p))

\* pow(10, -n/10) for an integer n >= 0, in precision p.  For n > 0 the real
\* value 10^(-n/10) lies in [m, m+1) * 2^(-k - GridBits), where k is the
\* least integer with 10^n < 2^(10k) and m the largest with
\* m^10 * 10^n < 2^(10 (GridBits + k)).
Pow10Neg(p, n) ==
    IF n = 0 THEN [lo |-> 2^GridBits, hi |-> 2^GridBits, e |-> 0]
    ELSE LET t == Pow10Big(n)
             k == (BitLen(t) + 9) \div 10
             m == SearchRoot(2^GridBits, 2^(GridBits + 1), t, 10 * (GridBits + k))
         IN  [lo |-> m - ErrUnits(p), hi |-> m + 1 + ErrUnits(p), e |-> 0 - k]

\* The numerator n of the exponent -n/10 the loop passes for index x.
TenthsIntDiv(x) == (x \div 10) * 10
Tenths(x) == x

\* a < b for certain.
Less(a, b) ==
    IF b.e >= a.e
    THEN (IF b.e - a.e > 3 THEN TRUE ELSE a.hi < b.lo * 2^(b.e - a.e))
    ELSE (IF a.e - b.e > 3 THEN FALSE ELSE a.hi * 2^(a.e - b.e) < b.lo)

IsOne(a) == a.lo = 2^GridBits /\ a.hi = 2^GridBits /\ a.e = 0

\* One iteration of the constructor's loop (lines 84-85, 107-110).
Context_step ==
    /\ ~built
    /\ cx < TableLen
    /\ ph2pr' = Append(ph2pr, Pow10Neg(prec, Tenths(cx)))
    /\ cx' = cx + 1
    /\ UNCHANGED <<prec, built, rtVars, ccVars>>

\* The loop ends and the constructor returns (lines 87-90, 112-115).
Context_return ==
    /\ ~built
    /\ cx >= TableLen
    /\ built' = TRUE
    /\ UNCHANGED <<prec, cx, ph2pr, rtVars, ccVars>>

CtxInit ==
    /\ prec \in {"double", "float"}
    /\ cx = 0
    /\ ph2pr = <<>>
    /\ built = FALSE

CtxIdle ==
    /\ prec = "double"
    /\ cx = 0
    /\ ph2pr = <<>>
    /\ built = FALSE

(***************************************************************************)
(* Specifications.                                                         *)
(***************************************************************************)
Init == RtInit /\ normOff \in NormOffsets /\ CcInit /\ CtxIdle
Next == read_testcase
Spec == Init /\ [][Next]_vars

InitConvertChar == RtIdle /\ CcInit /\ CtxIdle
NextConvertChar == ConvertChar_init \/ \E inp \in Byte : ConvertChar_get(inp)
SpecConvertChar == InitConvertChar /\ [][NextConvertChar]_vars

InitContext == RtIdle /\ CcInit /\ CtxInit
NextContext == Context_step \/ Context_return
SpecContext == InitContext /\ [][NextContext]_vars

(***************************************************************************)
(* Properties of read_testcase.                                            *)
(***************************************************************************)
\* The line the last call read (defined when it read one).
Consumed == Len(input) - Len(stdin)
LastLine == input[Consumed]
LastToks == Tokens(LastLine)
ReadALine == outcome \in {"ok", "malformed"}

\* C1: a line whose token count is not six makes read_testcase signal a parse
\* failure, by a return value different from the one it gives at end-of-input.
C1_ParseFailureDistinctFromEof ==
    (ReadALine /\ Len(LastToks) # 6) => (ret # RetOk /\ ret # RetEof)

\* C2: after a successful call, q[x] = max(normalize(qualityChar[x]), 6) at
\* every read position x, so q[x] >= 6 whatever normalize returns.
C2_QualityFloored ==
    outcome = "ok" =>
        /\ Len(mem[tc.q]) = tc.rslen
        /\ \A x \in 1..tc.rslen :
             /\ mem[tc.q][x] = Max(normalize(scratch.q[x]), 6)
             /\ mem[tc.q][x] >= 6
             /\ x <= Len(LastToks[3]) => scratch.q[x] = LastToks[3][x]

\* A quality character that normalizes to a negative value was floored to 6.
C2_Witness ==
    /\ outcome = "ok"
    /\ \E x \in 1..tc.rslen :
         /\ x <= Len(LastToks[3])
         /\ normalize(LastToks[3][x]) < 0
         /\ mem[tc.q][x] = 6

\* C3: after a successful call, i[x], d[x] and c[x] are the normalized
\* insertion, deletion and continuation characters, with no floor or clamp.
C3_IndelScoresUnfloored ==
    outcome = "ok" =>
        /\ Len(mem[tc.i]) = tc.rslen
        /\ Len(mem[tc.d]) = tc.rslen
        /\ Len(mem[tc.c]) = tc.rslen
        /\ \A x \in 1..tc.rslen :
             /\ mem[tc.i][x] = normalize(scratch.i[x])
             /\ mem[tc.d][x] = normalize(scratch.d[x])
             /\ mem[tc.c][x] = normalize(scratch.c[x])
             /\ x <= Len(LastToks[4]) => scratch.i[x] = LastToks[4][x]
             /\ x <= Len(LastToks[5]) => scratch.d[x] = LastToks[5][x]
             /\ x <= Len(LastToks[6]) => scratch.c[x] = LastToks[6][x]

\* Insertion, deletion and continuation values below 6 were stored as they are.
C3_Witness ==
    /\ outcome = "ok"
    /\ \E x \in 1..tc.rslen :
         /\ x <= Len(LastToks[4]) /\ x <= Len(LastToks[5]) /\ x <= Len(LastToks[6])
         /\ mem[tc.i][x] < 6 /\ mem[tc.d][x] < 6 /\ mem[tc.c][x] < 6

\* C4: after a successful call, ihap and irs hold the raw character values of
\* the first and second token, one per character, haplen and rslen being the
\* token lengths; nothing goes through the ConvertChar table.
C4_RawCharCodes ==
    outcome = "ok" =>
        /\ tc.haplen = Len(LastToks[1])
        /\ tc.rslen = Len(LastToks[2])
        /\ mem[tc.hap] = LastToks[1]
        /\ mem[tc.rs] = LastToks[2]
        /\ mem[tc.ihap] = [x \in 1..tc.haplen |-> LastToks[1][x]]
        /\ mem[tc.irs] = [x \in 1..tc.rslen |-> LastToks[2][x]]

\* The haplotype "AC" was ingested as 65, 67.
C4_Witness ==
    /\ outcome = "ok"
    /\ mem[tc.hap] = <<65, 67>>
    /\ mem[tc.ihap] = <<65, 67>>
    /\ mem[tc.irs] = <<71, 84>>

\* C5: a call that fails on a malformed record leaves every field of the
\* caller's testcase as it was before the call.
C5_NoPartialCase ==
    outcome = "malformed" => tc = tcBefore

\* C9: each call consumes exactly one line; on a stream of n well-formed
\* lines the k-th call (k <= n) succeeds with the case of the k-th line, and
\* every later call signals end-of-input.
WellFormed(line) == Len(Tokens(line)) = 6
AllWellFormed == \A k \in 1..Len(input) : WellFormed(input[k])

CaseOfLine(line) ==
    LET t == Tokens(line) IN
    /\ mem[tc.hap] = t[1]
    /\ mem[tc.rs] = t[2]
    /\ mem[tc.ihap] = t[1]
    /\ mem[tc.irs] = t[2]
    /\ \A x \in 1..Len(t[2]) :
         /\ x <= Len(t[3]) => mem[tc.q][x] = Max(normalize(t[3][x]), 6)
         /\ x <= Len(t[4]) => mem[tc.i][x] = normalize(t[4][x])
         /\ x <= Len(t[5]) => mem[tc.d][x] = normalize(t[5][x])
         /\ x <= Len(t[6]) => mem[tc.c][x] = normalize(t[6][x])

C9_OneLinePerCall ==
    /\ Consumed = (IF calls <= Len(input) THEN calls ELSE Len(input))
    /\ stdin = SubSeq(input, Consumed + 1, Len(input))
    /\ (AllWellFormed /\ 1 <= calls /\ calls <= Len(input)) =>
          /\ ret = RetOk
          /\ outcome = "ok"
          /\ CaseOfLine(input[calls])
    /\ calls > Len(input) => (ret = RetEof /\ outcome = "eof")

\* The second call on a stream of two different well-formed lines returned.
C9_Witness ==
    /\ AllWellFormed
    /\ Len(input) >= 2
    /\ input[1] # input[2]
    /\ calls = 2
    /\ outcome = "ok"

\* C10: when a call returns, every block it allocated is freed or is
\* referenced by a field of the testcase.
C10_NoLeak ==
    calls > 0 =>
        \A b \in allocd : b \notin DOMAIN mem \/ (\E f \in PtrFields : tc[f] = b)

(***************************************************************************)
(* Properties of ConvertChar.                                              *)
(***************************************************************************)
\* C6: for every 8-bit argument, the index get uses lies inside
\* conversionTable.
C6_GetIndexInBounds ==
    lastGet.called => lastGet.index \in 0..(TableSize - 1)

\* C7: once init has run, get('A') = 0, get('C') = 1, get('T') = 2,
\* get('G') = 3 and get('N') = 4, pairwise distinct, after any sequence of get
\* calls; get never changes the table.
Nucleotides == {65, 67, 84, 71, 78}
CodeOf(ch) == CASE ch = 65 -> 0 [] ch = 67 -> 1 [] ch = 84 -> 2 [] ch = 71 -> 3 [] ch = 78 -> 4

C7_CodesAfterInit ==
    /\ [](initCalled =>
            /\ \A ch \in Nucleotides : TableRead(conversionTable, ch) = {CodeOf(ch)}
            /\ \A a, b \in Nucleotides :
                 a # b => TableRead(conversionTable, a) # TableRead(conversionTable, b)
            /\ (lastGet.afterInit /\ lastGet.input \in Nucleotides) =>
                 lastGet.result = CodeOf(lastGet.input))
    /\ [][lastGet' # lastGet => conversionTable' = conversionTable]_vars

\* get('G') was called after init and returned 3.
C7_Witness ==
    /\ initCalled
    /\ lastGet.called /\ lastGet.afterInit
    /\ lastGet.input = 71
    /\ lastGet.result = 3

(***************************************************************************)
(* Properties of Context<T>.                                               *)
(***************************************************************************)
\* C8: for Context<double> and Context<float>, ph2pr[0] = 1 and
\* ph2pr[x+1] < ph2pr[x] for every x in 0..126.
C8_Ph2prDecreasing ==
    /\ Len(ph2pr) = cx
    /\ built => Len(ph2pr) = TableLen
    /\ \A x \in 1..Len(ph2pr) :
         /\ x = 1 => IsOne(ph2pr[x])
         /\ x > 1 => Less(ph2pr[x], ph2pr[x - 1])

\* The constructor of Context<float> has returned with all 128 entries.
C8_Witness ==
    /\ built
    /\ prec = "float"
    /\ Len(ph2pr) = 128

====
